---- MODULE Spec2Model ----
(***************************************************************************)
(* Model of the JSONValidator module of JsonLintPlus                       *)
(* (src/unnamed/part_007): parseJSONError, computePartialFormatting,       *)
(* formatUntilError and validateIncremental, together with the platform's  *)
(* JSON.parse / JSON.stringify that the module calls.                      *)
(*                                                                         *)
(* A JavaScript string is a sequence of one-character strings; offsets are *)
(* 0-based as in the code, so src[i] of the code is s[i + 1] here.         *)
(***************************************************************************)
EXTENDS Integers, Sequences, FiniteSets, TLC

(* ------------------------------ bounds -------------------------------- *)

\* longest source text enumerated exhaustively over Chars
MaxLen == 3

\* largest number that appears in a failure message handed to parseJSONError
MaxNum == 3

\* largest integer value of options.indentation (the smallest is -1)
MaxIndent == 2

(* ---------------------------- characters ------------------------------ *)

QUOTE == "\""

BACKSLASH == "\\"

NL == "\n"

TAB == "\t"

SPACE == " "

\* the characters the exhaustively enumerated sources are made of; texts with
\* brackets, tabs and letters are listed one by one below
Chars == {"{", "}", ",", ":", QUOTE, BACKSLASH, SPACE, NL, "1"}

\* /\s/ of the code, restricted to the characters used here
IsSpace(ch) == ch \in {SPACE, NL, TAB}

Max(a, b) == IF a >= b THEN a ELSE b

Min(a, b) == IF a <= b THEN a ELSE b

\* String.prototype.repeat for count >= 0
RECURSIVE Repeat(_, _)
Repeat(str, count) == IF count <= 0 THEN <<>> ELSE str \o Repeat(str, count - 1)

\* slice(start + 1): the suffix loses the character at the error
SliceOffByOne(s, start) == SubSeq(s, start + 2, Len(s))

\* String.prototype.slice(start) for 0 <= start
Slice(s, start) == SubSeq(s, start + 1, Len(s))

\* String.prototype.substring(0, end): end is clamped to [0, length]
Substring0(s, end) == SubSeq(s, 1, Max(0, Min(end, Len(s))))

\* String.prototype.split('\n'): the segments between newlines, never empty
RECURSIVE SplitLines(_)
SplitLines(s) ==
  IF \A i \in 1..Len(s) : s[i] # NL
  THEN <<s>>
  ELSE LET k == CHOOSE i \in 1..Len(s) : s[i] = NL /\ \A j \in 1..(i - 1) : s[j] # NL
       IN <<SubSeq(s, 1, k - 1)>> \o SplitLines(SubSeq(s, k + 1, Len(s)))

(* ------------------------- failure messages --------------------------- *)
(* A message is a sequence of tokens separated by white space: words and  *)
(* decimal numerals.                                                      *)

W(word) == [k |-> "word", w |-> word, n |-> 0]

N(num) == [k |-> "num", w |-> "", n |-> num]

\* the /i flag of the two regular expressions
Lower(word) ==
  CASE word \in {"line", "Line", "LINE"} -> "line"
    [] word \in {"column", "Column", "COLUMN"} -> "column"
    [] word \in {"position", "Position"} -> "position"
    [] OTHER -> word

IsWord(m, i, word) == i <= Len(m) /\ m[i].k = "word" /\ Lower(m[i].w) = word

IsNum(m, i) == i <= Len(m) /\ m[i].k = "num"

\* /line\s+(\d+)\s*(?:[,]|)\s*column\s+(\d+)/i matches starting at token i
LcMatchAt(m, i) ==
  /\ IsWord(m, i, "line")
  /\ IsNum(m, i + 1)
  /\ \/ IsWord(m, i + 2, "column") /\ IsNum(m, i + 3)
     \/ IsWord(m, i + 2, ",") /\ IsWord(m, i + 3, "column") /\ IsNum(m, i + 4)

\* errorMessage.match(/line.../i): <<>> (null) or <<L, C>> of the leftmost match
LcMatch(m) ==
  IF \A i \in 1..Len(m) : ~LcMatchAt(m, i)
  THEN <<>>
  ELSE LET i == CHOOSE x \in 1..Len(m) : LcMatchAt(m, x) /\ \A y \in 1..(x - 1) : ~LcMatchAt(m, y)
       IN <<m[i + 1].n, IF IsWord(m, i + 2, ",") THEN m[i + 4].n ELSE m[i + 3].n>>

\* /position\s+(\d+)/i matches starting at token i
PosMatchAt(m, i) == IsWord(m, i, "position") /\ IsNum(m, i + 1)

\* errorMessage.match(/position.../i): <<>> (null) or <<P>> of the leftmost match
PosMatch(m) ==
  IF \A i \in 1..Len(m) : ~PosMatchAt(m, i)
  THEN <<>>
  ELSE LET i == CHOOSE x \in 1..Len(m) : PosMatchAt(m, x) /\ \A y \in 1..(x - 1) : ~PosMatchAt(m, y)
       IN <<m[i + 1].n>>

(* --------------------------- parseJSONError --------------------------- *)

\* the loop of lines 12-14 without the "+ 1 for newline"
RECURSIVE SumLineLengthsNoNewline(_, _)
SumLineLengthsNoNewline(linesArr, count) ==
  IF count <= 0 THEN 0
  ELSE SumLineLengthsNoNewline(linesArr, count - 1) + Len(linesArr[count])

\* the loop of lines 12-14: sum of (length + 1) of linesArr[0 .. count-1]
RECURSIVE SumLineLengths(_, _)
SumLineLengths(linesArr, count) ==
  IF count <= 0 THEN 0
  ELSE SumLineLengths(linesArr, count - 1) + Len(linesArr[count]) + 1

\* line 4 with 0-based defaults: let line = 0, column = 0, position = 0
ErrorInfoDefaultsZeroBased == [line |-> 0, column |-> 0, position |-> 0]

\* line 4: let line = 1, column = 1, position = 0
ErrorInfoDefaults == [line |-> 1, column |-> 1, position |-> 0]

parseJSONError(errorMessage, jsonString) ==
  LET lcMatch == LcMatch(errorMessage)
      posMatch == PosMatch(errorMessage)
  IN IF lcMatch # <<>>
     THEN LET line == lcMatch[1]
              column == lcMatch[2]
              linesArr == SplitLines(jsonString)
              position == IF jsonString # <<>>
                          THEN SumLineLengths(linesArr, Max(0, Min(line - 1, Len(linesArr))))
                               + Max(0, column - 1)
                          ELSE ErrorInfoDefaults.position
          IN [line |-> line, column |-> column, position |-> position, message |-> errorMessage]
     ELSE LET position == IF posMatch # <<>> THEN posMatch[1] ELSE ErrorInfoDefaults.position
              linesArr == SplitLines(Substring0(jsonString, position))
          IN IF position > 0 /\ jsonString # <<>>
             THEN [line |-> Len(linesArr), column |-> Len(linesArr[Len(linesArr)]) + 1,
                   position |-> position, message |-> errorMessage]
             ELSE [line |-> ErrorInfoDefaults.line, column |-> ErrorInfoDefaults.column,
                   position |-> position, message |-> errorMessage]

(* ----------------- the platform's JSON.parse (ECMA-404) ----------------- *)
(* The grammar is the JSON grammar restricted to the characters that occur *)
(* in the sources of this model: objects, arrays, strings with the escapes *)
(* \" \\ \/ \n \t, unsigned integer numerals, and the white space of JSON. *)
(* A failure is reported at the 0-based offset of the first character that *)
(* cannot continue a JSON text (the length of the text at end of input).   *)

Digits == {"0", "1", "2", "3", "4", "5", "6", "7", "8", "9"}

\* the character at 0-based offset i, "" past the end
At(s, i) == IF 0 <= i /\ i < Len(s) THEN s[i + 1] ELSE ""

Ok(val, next) == [ok |-> TRUE, val |-> val, at |-> next]

Fail(i) == [ok |-> FALSE, val |-> [t |-> "none"], at |-> i]

RECURSIVE SkipWs(_, _)
SkipWs(s, i) == IF At(s, i) \in {SPACE, NL, TAB, "\r"} THEN SkipWs(s, i + 1) ELSE i

\* the characters of a string literal whose opening quote is at i - 1
RECURSIVE ParseStringChars(_, _, _)
ParseStringChars(s, i, acc) ==
  LET c == At(s, i)
  IN CASE c = "" -> Fail(Len(s))
       [] c = QUOTE -> Ok([t |-> "str", v |-> acc], i + 1)
       [] c = BACKSLASH ->
            LET e == At(s, i + 1)
            IN CASE e = "" -> Fail(Len(s))
                 [] e \in {QUOTE, BACKSLASH, "/"} -> ParseStringChars(s, i + 2, Append(acc, e))
                 [] e = "n" -> ParseStringChars(s, i + 2, Append(acc, NL))
                 [] e = "t" -> ParseStringChars(s, i + 2, Append(acc, TAB))
                 [] OTHER -> Fail(i + 1)
       [] c \in {NL, TAB, "\r"} -> Fail(i)
       [] OTHER -> ParseStringChars(s, i + 1, Append(acc, c))

RECURSIVE ParseDigits(_, _, _)
ParseDigits(s, i, acc) ==
  IF At(s, i) \in Digits THEN ParseDigits(s, i + 1, Append(acc, At(s, i)))
  ELSE Ok([t |-> "num", v |-> acc], i)

\* int = "0" | digit1-9 digit*
ParseNumber(s, i) ==
  IF At(s, i) = "0" THEN Ok([t |-> "num", v |-> <<"0">>], i + 1)
  ELSE ParseDigits(s, i, <<>>)

\* [[Set]] on an ordinary object: an existing key keeps its place
PutMember(members, key, val) ==
  IF \E x \in 1..Len(members) : members[x].k = key
  THEN [x \in 1..Len(members) |->
          IF members[x].k = key THEN [k |-> key, v |-> val] ELSE members[x]]
  ELSE Append(members, [k |-> key, v |-> val])

RECURSIVE ParseValue(_, _)
RECURSIVE ParseElements(_, _, _)
RECURSIVE ParseMembers(_, _, _)

ParseValue(s, i) ==
  LET j == SkipWs(s, i)
      c == At(s, j)
  IN CASE c = "{" ->
            IF At(s, SkipWs(s, j + 1)) = "}"
            THEN Ok([t |-> "obj", v |-> <<>>], SkipWs(s, j + 1) + 1)
            ELSE ParseMembers(s, SkipWs(s, j + 1), <<>>)
       [] c = "[" ->
            IF At(s, SkipWs(s, j + 1)) = "]"
            THEN Ok([t |-> "arr", v |-> <<>>], SkipWs(s, j + 1) + 1)
            ELSE ParseElements(s, j + 1, <<>>)
       [] c = QUOTE -> ParseStringChars(s, j + 1, <<>>)
       [] c \in Digits -> ParseNumber(s, j)
       [] OTHER -> Fail(j)

ParseElements(s, i, acc) ==
  LET v == ParseValue(s, i)
      k == SkipWs(s, v.at)
  IN IF ~v.ok THEN v
     ELSE CASE At(s, k) = "," -> ParseElements(s, k + 1, Append(acc, v.val))
            [] At(s, k) = "]" -> Ok([t |-> "arr", v |-> Append(acc, v.val)], k + 1)
            [] OTHER -> Fail(k)

ParseMembers(s, i, acc) ==
  IF At(s, i) # QUOTE THEN Fail(i)
  ELSE LET key == ParseStringChars(s, i + 1, <<>>)
           k == SkipWs(s, key.at)
           v == ParseValue(s, k + 1)
           m == SkipWs(s, v.at)
       IN CASE ~key.ok -> key
            [] At(s, k) # ":" -> Fail(k)
            [] ~v.ok -> v
            [] At(s, m) = "," ->
                 ParseMembers(s, SkipWs(s, m + 1), PutMember(acc, key.val.v, v.val))
            [] At(s, m) = "}" ->
                 Ok([t |-> "obj", v |-> PutMember(acc, key.val.v, v.val)], m + 1)
            [] OTHER -> Fail(m)

\* JSON.parse(text): ok with the value, or the failure offset in `at`
JSONparse(s) ==
  LET v == ParseValue(s, 0)
      k == SkipWs(s, v.at)
  IN IF ~v.ok THEN v
     ELSE IF k = Len(s) THEN v ELSE Fail(k)

(* ------------- the platform's JSON.stringify(value, null, gap) --------- *)

\* QuoteJSONString: the escapes of the characters that occur here
RECURSIVE EscapeChars(_)
EscapeChars(str) ==
  IF str = <<>> THEN <<>>
  ELSE LET c == Head(str)
           e == CASE c = QUOTE -> <<BACKSLASH, QUOTE>>
                  [] c = BACKSLASH -> <<BACKSLASH, BACKSLASH>>
                  [] c = NL -> <<BACKSLASH, "n">>
                  [] c = TAB -> <<BACKSLASH, "t">>
                  [] OTHER -> <<c>>
       IN e \o EscapeChars(Tail(str))

QuoteString(str) == <<QUOTE>> \o EscapeChars(str) \o <<QUOTE>>

DigitValue(c) == CHOOSE d \in 0..9 : <<"0", "1", "2", "3", "4", "5", "6", "7", "8", "9">>[d + 1] = c

RECURSIVE NumeralValue(_)
NumeralValue(str) ==
  IF str = <<>> THEN 0
  ELSE 10 * NumeralValue(SubSeq(str, 1, Len(str) - 1)) + DigitValue(str[Len(str)])

\* an array index: a canonical numeric string (keys here stay far below 2^32 - 1)
IsArrayIndex(key) ==
  /\ key # <<>>
  /\ \A i \in 1..Len(key) : key[i] \in Digits
  /\ key[1] = "0" => Len(key) = 1

\* OrdinaryOwnPropertyKeys: array indices ascending, then the other keys in
\* insertion order
RECURSIVE InsertIndexKey(_, _)
InsertIndexKey(sorted, m) ==
  IF sorted = <<>> THEN <<m>>
  ELSE IF NumeralValue(m.k) < NumeralValue(Head(sorted).k) THEN <<m>> \o sorted
  ELSE <<Head(sorted)>> \o InsertIndexKey(Tail(sorted), m)

RECURSIVE SortIndexKeys(_)
SortIndexKeys(members) ==
  IF members = <<>> THEN <<>>
  ELSE InsertIndexKey(SortIndexKeys(Tail(members)), Head(members))

OwnPropertyKeys(members) ==
  SortIndexKeys(SelectSeq(members, LAMBDA m : IsArrayIndex(m.k)))
    \o SelectSeq(members, LAMBDA m : ~IsArrayIndex(m.k))

RECURSIVE JoinWith(_, _)
JoinWith(parts, sep) ==
  IF parts = <<>> THEN <<>>
  ELSE IF Len(parts) = 1 THEN parts[1]
  ELSE parts[1] \o sep \o JoinWith(Tail(parts), sep)

\* SerializeJSONProperty / SerializeJSONObject / SerializeJSONArray
RECURSIVE Serialize(_, _, _)
Serialize(val, indent, gap) ==
  LET stepback == indent
      inner == indent \o gap
      sep == IF gap = <<>> THEN <<",">> ELSE <<",", NL>> \o inner
      open == IF gap = <<>> THEN <<>> ELSE <<NL>> \o inner
      close == IF gap = <<>> THEN <<>> ELSE <<NL>> \o stepback
      colon == IF gap = <<>> THEN <<":">> ELSE <<":", SPACE>>
  IN CASE val.t = "num" -> val.v
       [] val.t = "str" -> QuoteString(val.v)
       [] val.t = "arr" ->
            IF val.v = <<>> THEN <<"[", "]">>
            ELSE <<"[">> \o open
                 \o JoinWith([x \in 1..Len(val.v) |-> Serialize(val.v[x], inner, gap)], sep)
                 \o close \o <<"]">>
       [] val.t = "obj" ->
            IF val.v = <<>> THEN <<"{", "}">>
            ELSE LET ms == OwnPropertyKeys(val.v)
                 IN <<"{">> \o open
                    \o JoinWith([x \in 1..Len(ms) |->
                                   QuoteString(ms[x].k) \o colon
                                     \o Serialize(ms[x].v, inner, gap)], sep)
                    \o close \o <<"}">>

\* JSON.stringify(value, null, space) for a string space: gap is its first 10 characters
JSONstringify(val, space) == Serialize(val, <<>>, SubSeq(space, 1, Min(10, Len(space))))

(* ----------------------- computePartialFormatting --------------------- *)

\* out.replace(/[ \t]*$/, '')
RECURSIVE TrimTrailingBlanks(_)
TrimTrailingBlanks(out) ==
  IF out # <<>> /\ out[Len(out)] \in {SPACE, TAB}
  THEN TrimTrailingBlanks(SubSeq(out, 1, Len(out) - 1))
  ELSE out

\* lines 60-63
FormatterStart == [out |-> <<>>, level |-> 0, inString |-> FALSE, escape |-> FALSE]

\* the in-string branch without the test for a backslash: escape is never set
StepInStringNeverEscapes(st, ch) ==
  [st EXCEPT !.out = st.out \o <<ch>>,
             !.escape = FALSE,
             !.inString = ~(~st.escape /\ ch = QUOTE)]

\* the in-string branch testing the quote first: a quote ends the string even
\* when escape is set
StepInStringQuoteFirst(st, ch) ==
  [st EXCEPT !.out = st.out \o <<ch>>,
             !.escape = IF ch = QUOTE \/ st.escape THEN FALSE ELSE ch = BACKSLASH,
             !.inString = ch # QUOTE]

\* lines 69-79: inside a string
StepInString(st, ch) ==
  [st EXCEPT !.out = st.out \o <<ch>>,
             !.escape = IF st.escape THEN FALSE ELSE ch = BACKSLASH,
             !.inString = IF ~st.escape /\ ch # BACKSLASH /\ ch = QUOTE
                          THEN FALSE ELSE TRUE]

\* lines 81-85: a quote opens a string
StepQuote(st, ch) ==
  [st EXCEPT !.inString = TRUE, !.out = st.out \o <<ch>>]

\* the opening bracket with indentStr.repeat(level++): the indent of the old level
StepOpenPostIncrement(st, ch, indentStr) ==
  [st EXCEPT !.level = st.level + 1,
             !.out = st.out \o <<ch, NL>> \o Repeat(indentStr, st.level)]

\* lines 87-90: an opening bracket
StepOpen(st, ch, indentStr) ==
  [st EXCEPT !.level = st.level + 1,
             !.out = st.out \o <<ch, NL>> \o Repeat(indentStr, st.level + 1)]

\* the closing bracket without out.replace(/[ \t]*$/, ''): the blanks stay
StepCloseKeepsBlanks(st, ch, indentStr) ==
  LET level == Max(0, st.level - 1)
  IN [st EXCEPT !.level = level,
                !.out = st.out \o <<NL>> \o Repeat(indentStr, level) \o <<ch>>]

\* the closing bracket with level-- instead of Math.max(0, level - 1)
StepCloseUnfloored(st, ch, indentStr) ==
  [st EXCEPT !.level = st.level - 1,
             !.out = TrimTrailingBlanks(st.out) \o <<NL>>
                       \o Repeat(indentStr, st.level - 1) \o <<ch>>]

\* lines 92-98: a closing bracket
StepClose(st, ch, indentStr) ==
  LET level == Max(0, st.level - 1)
  IN [st EXCEPT !.level = level,
                !.out = TrimTrailingBlanks(st.out) \o <<NL>>
                          \o Repeat(indentStr, level) \o <<ch>>]

\* the comma indented one level deeper than the current one
StepCommaDeeper(st, ch, indentStr) ==
  [st EXCEPT !.out = st.out \o <<ch, NL>> \o Repeat(indentStr, st.level + 1)]

\* the comma branch emitting the newline and the indent without the comma
StepCommaDropped(st, ch, indentStr) ==
  [st EXCEPT !.out = st.out \o <<NL>> \o Repeat(indentStr, st.level)]

\* the comma branch trimming the blanks before the comma, as a closing bracket does
StepCommaTrims(st, ch, indentStr) ==
  [st EXCEPT !.out = TrimTrailingBlanks(st.out) \o <<ch, NL>> \o Repeat(indentStr, st.level)]

\* lines 100-103: a comma
StepComma(st, ch, indentStr) ==
  [st EXCEPT !.out = st.out \o <<ch, NL>> \o Repeat(indentStr, st.level)]

\* lines 105-108: a colon
StepColon(st) ==
  [st EXCEPT !.out = st.out \o <<":", SPACE>>]

\* whitespace outside a string without the test of the previous character
StepWhitespaceAlways(st) ==
  [st EXCEPT !.out = st.out \o <<SPACE>>]

\* lines 110-117: whitespace outside a string
StepWhitespace(st) ==
  IF st.out # <<>> /\ ~IsSpace(st.out[Len(st.out)])
  THEN [st EXCEPT !.out = st.out \o <<SPACE>>]
  ELSE st

\* line 119: any other character
StepOther(st, ch) ==
  [st EXCEPT !.out = st.out \o <<ch>>]

\* the branch of the loop body that character ch takes in state st
Branch(st, ch) ==
  CASE st.inString -> "inString"
    [] ch = QUOTE -> "quote"
    [] ch \in {"{", "["} -> "open"
    [] ch \in {"}", "]"} -> "close"
    [] ch = "," -> "comma"
    [] ch = ":" -> "colon"
    [] IsSpace(ch) -> "whitespace"
    [] OTHER -> "other"

\* one iteration of the loop of lines 66-120 on character ch
FormatterStep(st, ch, indentStr) ==
  CASE Branch(st, ch) = "inString" -> StepInString(st, ch)
    [] Branch(st, ch) = "quote" -> StepQuote(st, ch)
    [] Branch(st, ch) = "open" -> StepOpen(st, ch, indentStr)
    [] Branch(st, ch) = "close" -> StepClose(st, ch, indentStr)
    [] Branch(st, ch) = "comma" -> StepComma(st, ch, indentStr)
    [] Branch(st, ch) = "colon" -> StepColon(st)
    [] Branch(st, ch) = "whitespace" -> StepWhitespace(st)
    [] OTHER -> StepOther(st, ch)

\* the automaton state after the first n characters of src
RECURSIVE FormatterRun(_, _, _)
FormatterRun(src, n, indentStr) ==
  IF n <= 0 THEN FormatterStart
  ELSE FormatterStep(FormatterRun(src, n - 1, indentStr), src[n], indentStr)

\* computePartialFormatting reporting the offset in the source, not in the output
computePartialFormattingSourceOffset(src, endIndex, indentStr) ==
  LET n == Max(0, Min(Len(src), endIndex))
      out == FormatterRun(src, n, indentStr).out
  IN [formatted |-> out, formattedErrorOffset |-> n]

\* computePartialFormatting with the loop bound i <= n
computePartialFormattingInclusive(src, endIndex, indentStr) ==
  LET n == Min(Len(src), Max(0, Min(Len(src), endIndex)) + 1)
      out == FormatterRun(src, n, indentStr).out
  IN [formatted |-> out, formattedErrorOffset |-> Len(out)]

computePartialFormatting(src, endIndex, indentStr) ==
  LET n == Max(0, Min(Len(src), endIndex))
      out == FormatterRun(src, n, indentStr).out
  IN [formatted |-> out, formattedErrorOffset |-> Len(out)]

(* ---------------- the failure message of JSON.parse -------------------- *)
(* The wording of err.message is the engine's: V8 reports "... in JSON at  *)
(* position P", newer V8 adds "(line L column C)", SpiderMonkey reports    *)
(* "... at line L column C of the JSON data", JavaScriptCore (and V8 for   *)
(* the end of input) reports no location at all, and V8 reports an         *)
(* unexpected token by quoting the text: Unexpected token 'x', "<text>" is *)
(* not valid JSON (at the end of the text there is no token to quote, and  *)
(* the message is "Unexpected end of JSON input").                         *)

Engines == {"position", "position_line_column", "line_column", "no_location", "quoted_text"}

RECURSIVE Concat(_)
Concat(chars) == IF chars = <<>> THEN "" ELSE Head(chars) \o Concat(Tail(chars))

\* the tokens of a text quoted in a message: its maximal runs of characters
\* other than white space, a run of digits being a numeral
RECURSIVE Tokenize(_, _)
Tokenize(s, run) ==
  LET token == IF \A i \in 1..Len(run) : run[i] \in Digits
               THEN N(NumeralValue(run)) ELSE W(Concat(run))
  IN IF s = <<>> THEN (IF run = <<>> THEN <<>> ELSE <<token>>)
     ELSE IF IsSpace(Head(s))
     THEN (IF run = <<>> THEN <<>> ELSE <<token>>) \o Tokenize(Tail(s), <<>>)
     ELSE Tokenize(Tail(s), Append(run, Head(s)))

\* 1-based line and column of 0-based offset e, as the engines count them
EngineLine(s, e) == 1 + Cardinality({i \in 1..e : s[i] = NL})

EngineColumn(s, e) ==
  LET nls == {i \in 1..e : s[i] = NL}
  IN IF nls = {} THEN e + 1 ELSE e - (CHOOSE i \in nls : \A j \in nls : j <= i) + 1

EngineMessage(engine, s, e) ==
  CASE engine = "position" ->
         <<W("Unexpected"), W("token"), W("in"), W("JSON"), W("at"), W("position"), N(e)>>
    [] engine = "position_line_column" ->
         <<W("Unexpected"), W("token"), W("in"), W("JSON"), W("at"), W("position"), N(e),
           W("("), W("line"), N(EngineLine(s, e)), W("column"), N(EngineColumn(s, e)), W(")")>>
    [] engine = "line_column" ->
         <<W("JSON.parse:"), W("unexpected"), W("character"), W("at"), W("line"),
           N(EngineLine(s, e)), W("column"), N(EngineColumn(s, e)), W("of"), W("the"),
           W("JSON"), W("data")>>
    [] engine = "quoted_text" /\ e < Len(s) ->
         <<W("Unexpected"), W("token"), W(","), W("\"")>> \o Tokenize(s, <<>>)
           \o <<W("\""), W("is"), W("not"), W("valid"), W("JSON")>>
    [] OTHER ->
         <<W("Unexpected"), W("end"), W("of"), W("JSON"), W("input")>>

(* --------------------- options.indentation ---------------------------- *)

AbsentOpt == [kind |-> "absent", n |-> 0]

TabOpt == [kind |-> "tab", n |-> 0]

IntOpt(n) == [kind |-> "int", n |-> n]

\* the completion of a call: a returned value or a thrown exception
Return(value) == [completion |-> "return", value |-> value]

Throw(name) == [completion |-> "throw", value |-> [name |-> name]]

\* lines 34-35 and 127-128: ' '.repeat(count) throws a RangeError for count < 0
IndentStr(options) ==
  LET indentation == IF options.kind = "absent" THEN IntOpt(2) ELSE options
      count == IF indentation.n = 0 THEN 2 ELSE indentation.n
  IN IF indentation.kind = "tab" THEN Return(<<TAB>>)
     ELSE IF count < 0 THEN Throw("RangeError")
     ELSE Return(Repeat(<<SPACE>>, count))

(* -------------------------- formatUntilError -------------------------- *)

\* line 42 and line 140
\* line 140 without Math.max and Math.min: the reported position as it comes
ErrorIndexUnclamped(errorInfo, jsonString) == errorInfo.position

ErrorIndex(errorInfo, jsonString) == Max(0, Min(errorInfo.position, Len(jsonString)))

\* lines 40-55: the catch block
FormatFailure(message, jsonString, indentStr) ==
  LET errorInfo == parseJSONError(message, jsonString)
      errorIndex == ErrorIndex(errorInfo, jsonString)
      partial == computePartialFormatting(jsonString, errorIndex, indentStr)
      suffix == Slice(jsonString, errorIndex)
  IN [isValid |-> FALSE,
      error |-> message,
      errorInfo |-> errorInfo,
      errorIndex |-> errorIndex,
      formattedPrefix |-> partial.formatted,
      suffix |-> suffix,
      formattedErrorOffset |-> partial.formattedErrorOffset,
      formattedContent |-> partial.formatted \o suffix]

\* formatUntilError with JSON.stringify(jsonString, null, indentStr): the text is
\* serialised instead of the parsed value
formatUntilErrorStringifiesText(jsonString, options, engine) ==
  LET indentStr == IndentStr(options)
      parsed == JSONparse(jsonString)
  IN IF indentStr.completion = "throw" THEN indentStr
     ELSE IF parsed.ok
     THEN Return([isValid |-> TRUE,
                  formattedFull |-> JSONstringify([t |-> "str", v |-> jsonString],
                                                  indentStr.value)])
     ELSE Return(FormatFailure(EngineMessage(engine, jsonString, parsed.at),
                               jsonString, indentStr.value))

formatUntilError(jsonString, options, engine) ==
  LET indentStr == IndentStr(options)
      parsed == JSONparse(jsonString)
  IN IF indentStr.completion = "throw" THEN indentStr
     ELSE IF parsed.ok
     THEN Return([isValid |-> TRUE,
                  formattedFull |-> JSONstringify(parsed.val, indentStr.value)])
     ELSE Return(FormatFailure(EngineMessage(engine, jsonString, parsed.at),
                               jsonString, indentStr.value))

(* ------------------------- validateIncremental ------------------------ *)

\* lines 143-145
ReplayStart == [level |-> 0, inString |-> FALSE, escape |-> FALSE]

\* the replay iteration with level-- for a closing bracket, without Math.max
ReplayStepUnfloored(st, ch) ==
  CASE st.inString ->
         [st EXCEPT !.escape = IF st.escape THEN FALSE ELSE ch = BACKSLASH,
                    !.inString = IF ~st.escape /\ ch # BACKSLASH /\ ch = QUOTE
                                 THEN FALSE ELSE TRUE]
    [] ch = QUOTE -> [st EXCEPT !.inString = TRUE]
    [] ch \in {"{", "["} -> [st EXCEPT !.level = st.level + 1]
    [] ch \in {"}", "]"} -> [st EXCEPT !.level = st.level - 1]
    [] OTHER -> st

\* one iteration of the loop of lines 146-170
ReplayStep(st, ch) ==
  CASE st.inString ->
         [st EXCEPT !.escape = IF st.escape THEN FALSE ELSE ch = BACKSLASH,
                    !.inString = IF ~st.escape /\ ch # BACKSLASH /\ ch = QUOTE
                                 THEN FALSE ELSE TRUE]
    [] ch = QUOTE -> [st EXCEPT !.inString = TRUE]
    [] ch \in {"{", "["} -> [st EXCEPT !.level = st.level + 1]
    [] ch \in {"}", "]"} -> [st EXCEPT !.level = Max(0, st.level - 1)]
    [] OTHER -> st

RECURSIVE ReplayRun(_, _)
ReplayRun(src, n) ==
  IF n <= 0 THEN ReplayStart ELSE ReplayStep(ReplayRun(src, n - 1), src[n])

\* lines 175-182 with the depth tested before inString
ExpectedDepthFirst(tokenContext) ==
  IF tokenContext.level > 0 THEN "closing brace/bracket or next value"
  ELSE IF tokenContext.inString THEN "terminating quote \" for string"
  ELSE "value or end of input"

\* lines 175-182
Expected(tokenContext) ==
  IF tokenContext.inString THEN "terminating quote \" for string"
  ELSE IF tokenContext.level > 0 THEN "closing brace/bracket or next value"
  ELSE "value or end of input"

\* the catch block of validateIncremental formatting with two spaces whatever
\* options.indentation says
ValidateFailureDefaultIndent(message, jsonString, indentStr) ==
  LET errorInfo == parseJSONError(message, jsonString)
      errorIndex == ErrorIndex(errorInfo, jsonString)
      tokenContext == ReplayRun(jsonString, errorIndex)
      partial == computePartialFormatting(jsonString, errorIndex, <<SPACE, SPACE>>)
      suffix == Slice(jsonString, errorIndex)
  IN [isValid |-> FALSE,
      error |-> message,
      errorInfo |-> errorInfo,
      errorIndex |-> errorIndex,
      formattedPrefix |-> partial.formatted,
      suffix |-> suffix,
      formattedErrorOffset |-> partial.formattedErrorOffset,
      formattedContent |-> partial.formatted \o suffix,
      tokenContext |-> tokenContext,
      expected |-> Expected(tokenContext)]

\* lines 138-196: the catch block
ValidateFailure(message, jsonString, indentStr) ==
  LET errorInfo == parseJSONError(message, jsonString)
      errorIndex == ErrorIndex(errorInfo, jsonString)
      tokenContext == ReplayRun(jsonString, errorIndex)
      partial == computePartialFormatting(jsonString, errorIndex, indentStr)
      suffix == Slice(jsonString, errorIndex)
  IN [isValid |-> FALSE,
      error |-> message,
      errorInfo |-> errorInfo,
      errorIndex |-> errorIndex,
      formattedPrefix |-> partial.formatted,
      suffix |-> suffix,
      formattedErrorOffset |-> partial.formattedErrorOffset,
      formattedContent |-> partial.formatted \o suffix,
      tokenContext |-> tokenContext,
      expected |-> Expected(tokenContext)]

validateIncremental(jsonString, options, engine) ==
  LET indentStr == IndentStr(options)
      parsed == JSONparse(jsonString)
  IN IF indentStr.completion = "throw" THEN indentStr
     ELSE IF parsed.ok
     THEN Return([isValid |-> TRUE,
                  parsed |-> parsed.val,
                  formattedFull |-> JSONstringify(parsed.val, indentStr.value)])
     ELSE Return(ValidateFailure(EngineMessage(engine, jsonString, parsed.at),
                                 jsonString, indentStr.value))

(* ------------------------------ inputs -------------------------------- *)

\* Scenario A of the specification: {"a":1,"b":2}
ScenarioA ==
  <<"{", QUOTE, "a", QUOTE, ":", "1", ",", QUOTE, "b", QUOTE, ":", "2", "}">>

\* Scenario B: {"name": "John" (missing closing brace)
ScenarioB ==
  <<"{", QUOTE, "n", "a", "m", "e", QUOTE, ":", SPACE, QUOTE, "J", "o", "h",
    "n", QUOTE>>

\* Scenario C: {"a": "unterminated
ScenarioC ==
  <<"{", QUOTE, "a", QUOTE, ":", SPACE, QUOTE, "u", "n", "t", "e", "r", "m",
    "i", "n", "a", "t", "e", "d">>

\* Scenario D: {"a":1,} (trailing comma)
ScenarioD ==
  <<"{", QUOTE, "a", QUOTE, ":", "1", ",", "}">>

\* texts with brackets
ArrayTexts ==
  {<<"[", "]">>,
   <<"[", "1", "]">>,
   <<"[", SPACE, "]">>,
   <<"[", "[", "]", "]">>,
   <<"[", "{", "}", "]">>,
   <<"[", "1", ",", "1", "]">>,
   <<"[", "1", SPACE, "]">>,
   <<"[", ",", "]">>,
   <<"[", "1", ",", "]">>,
   <<"[", "}">>,
   <<"{", "]">>,
   <<"[", "1">>,
   <<"[", QUOTE, "]", QUOTE>>,
   <<"[", "1", SPACE, ",", "2", "]">>,
   <<"[", "1", "]", SPACE>>,
   <<"[", TAB, "1", "]">>,
   <<"[", "1", ",", NL, "2", "]">>,
   <<"[", "1", ",", SPACE, "2">>}

\* further texts: white space before ':', nesting, a repeated key, an index key,
\* a line break between members, escapes
ObjectTexts ==
  {<<"{", QUOTE, "a", QUOTE, SPACE, ":", "1", "}">>,
   <<"{", QUOTE, "a", QUOTE, ":", "[", "1", ",", "2", "]", "}">>,
   <<"{", QUOTE, "a", QUOTE, ":", "1", ",", QUOTE, "a", QUOTE, ":", "2", "}">>,
   <<"{", QUOTE, "b", QUOTE, ":", "1", ",", QUOTE, "1", QUOTE, ":", "2", "}">>,
   <<"{", QUOTE, "a", QUOTE, ":", "{", "}", "}">>,
   <<"{", QUOTE, "a", QUOTE, ":", "1", NL, QUOTE, "b", QUOTE, "}">>,
   <<QUOTE, BACKSLASH, "/", QUOTE>>,
   <<QUOTE, "a", BACKSLASH>>}

\* texts that spell the words the locator looks for in a message
WordTexts ==
  {<<"p", "o", "s", "i", "t", "i", "o", "n", SPACE, "9", "9">>,
   <<"l", "i", "n", "e", SPACE, "9", SPACE, "c", "o", "l", "u", "m", "n", SPACE, "9">>}

\* every text of at most MaxLen characters over Chars
ShortTexts == UNION {[1..n -> Chars] : n \in 0..MaxLen}

Sources == ShortTexts \cup {ScenarioA, ScenarioB, ScenarioC, ScenarioD} \cup ArrayTexts
             \cup ObjectTexts \cup WordTexts

\* values of options.indentation: absent, 'tab', and the integers -1 .. MaxIndent
Indentations == {AbsentOpt, TabOpt} \cup {IntOpt(n) : n \in -1..MaxIndent}

\* indent units handed to computePartialFormatting
IndentUnits == {<<TAB>>} \cup {Repeat(<<SPACE>>, n) : n \in 1..MaxIndent}

\* failure messages handed to parseJSONError directly
LineColumnMessages ==
  {<<W("line"), N(l), W("column"), N(c)>> : l \in 0..MaxNum, c \in 0..MaxNum}
    \cup {<<W("at"), W("LINE"), N(l), W(","), W("Column"), N(c), W("of"), W("data")>> :
            l \in 0..MaxNum, c \in 0..MaxNum}

PositionMessages ==
  {<<W("Unexpected"), W("token"), W("at"), W("position"), N(p)>> : p \in 0..(MaxNum + 1)}
    \cup {<<W("Position"), N(p)>> : p \in {0, MaxNum}}
    \cup {<<W("at"), W("position"), N(p), W("("), W("line"), N(1), W("column"), N(p + 1), W(")")>> :
            p \in 0..MaxNum}

OtherMessages ==
  {<<>>,
   <<W("Unexpected"), W("end"), W("of"), W("JSON"), W("input")>>,
   <<W("line"), N(2)>>,
   <<W("line"), W("column"), N(2)>>,
   <<W("position"), W("-"), N(1)>>}

Messages == LineColumnMessages \cup PositionMessages \cup OtherMessages

(* ------------------------- the callers in ui.js ------------------------ *)

\* String.prototype.trim
RECURSIVE Trim(_)
Trim(s) ==
  IF s = <<>> THEN s
  ELSE IF IsSpace(s[1]) THEN Trim(SubSeq(s, 2, Len(s)))
  ELSE IF IsSpace(s[Len(s)]) THEN Trim(SubSeq(s, 1, Len(s) - 1))
  ELSE s

\* a property of the validator's result, or '' when it is missing
OrEmpty(res, field) == IF field \in DOMAIN res THEN res[field] ELSE <<>>

\* errorForDisplay with the spread of result.errorInfo alone: line and column
\* stay those of errorInfo
errorForDisplayFromErrorInfo(res) ==
  [line |-> res.errorInfo.line,
   column |-> res.errorInfo.column,
   position |-> res.errorInfo.position,
   message |-> res.errorInfo.message,
   absoluteOffset |-> res.formattedErrorOffset]

\* the error handed to the display: errorInfo with line and column recomputed
\* from the formatted prefix
errorForDisplay(res) ==
  LET formattedPrefix == OrEmpty(res, "formattedPrefix")
      linesBefore == SplitLines(formattedPrefix)
      displayLine == Len(linesBefore)
      displayColumn == Len(linesBefore[Len(linesBefore)]) + 1
  IN [line |-> displayLine,
      column |-> displayColumn,
      position |-> res.errorInfo.position,
      message |-> res.errorInfo.message,
      absoluteOffset |-> res.formattedErrorOffset]

\* showPartialOutput: the prefix and the suffix in two adjacent spans
showPartialOutput(formattedPrefix, rawSuffix, errorInfo) ==
  [view |-> "partial",
   output |-> formattedPrefix \o rawSuffix,
   currentError |-> errorInfo]

\* the catch branch shared by validateJSON and formatJSON
ShowInvalid(validated) ==
  IF validated.completion = "throw" THEN validated
  ELSE Return(showPartialOutput(OrEmpty(validated.value, "formattedPrefix"),
                                OrEmpty(validated.value, "suffix"),
                                errorForDisplay(validated.value)))

\* the try branch: the pretty-print of the parsed value, two spaces a level
ShowValid(parsed) ==
  Return([view |-> "output", output |-> JSONstringify(parsed.val, Repeat(<<SPACE>>, 2))])

validateJSON(input, engine) ==
  IF Trim(input) = <<>> THEN Return([view |-> "notification"])
  ELSE IF JSONparse(input).ok THEN ShowValid(JSONparse(input))
  ELSE ShowInvalid(validateIncremental(input, IntOpt(2), engine))

formatJSON(input, engine) ==
  IF Trim(input) = <<>> THEN Return([view |-> "notification"])
  ELSE IF JSONparse(input).ok THEN ShowValid(JSONparse(input))
  ELSE ShowInvalid(formatUntilError(input, IntOpt(2), engine))

(* --------------------------- state machine ---------------------------- *)

VARIABLES
  source,   \* the text under validation
  call,     \* the last invocation: the function and its arguments
  result    \* its completion: the returned value or the exception

vars == <<source, call, result>>

Init ==
  /\ source \in Sources
  /\ call = [op |-> "none"]
  /\ result = [completion |-> "none"]

\* no call is under way and no result is waiting for the caller
Idle == call.op = "none"

CallParseJSONError ==
  \E m \in Messages :
    /\ Idle
    /\ call' = [op |-> "parseJSONError", message |-> m]
    /\ result' = Return(parseJSONError(m, source))
    /\ UNCHANGED source

CallComputePartialFormatting ==
  \E endIndex \in -1..(Len(source) + 1), indentStr \in IndentUnits :
    /\ Idle
    /\ call' = [op |-> "computePartialFormatting", endIndex |-> endIndex,
                indentStr |-> indentStr]
    /\ result' = Return(computePartialFormatting(source, endIndex, indentStr))
    /\ UNCHANGED source

CallFormatUntilError ==
  \E options \in Indentations, engine \in Engines :
    /\ Idle
    /\ call' = [op |-> "formatUntilError", options |-> options, engine |-> engine]
    /\ result' = formatUntilError(source, options, engine)
    /\ UNCHANGED source

CallValidateIncremental ==
  \E options \in Indentations, engine \in Engines :
    /\ Idle
    /\ call' = [op |-> "validateIncremental", options |-> options, engine |-> engine]
    /\ result' = validateIncremental(source, options, engine)
    /\ UNCHANGED source

CallValidateJSON ==
  \E engine \in Engines :
    /\ Idle
    /\ call' = [op |-> "validateJSON", engine |-> engine]
    /\ result' = validateJSON(source, engine)
    /\ UNCHANGED source

CallFormatJSON ==
  \E engine \in Engines :
    /\ Idle
    /\ call' = [op |-> "formatJSON", engine |-> engine]
    /\ result' = formatJSON(source, engine)
    /\ UNCHANGED source

\* the caller has consumed the result; nothing of the call is kept
Discard ==
  /\ ~Idle
  /\ call' = [op |-> "none"]
  /\ result' = [completion |-> "none"]
  /\ UNCHANGED source

Next ==
  \/ CallParseJSONError
  \/ CallComputePartialFormatting
  \/ CallFormatUntilError
  \/ CallValidateIncremental
  \/ CallValidateJSON
  \/ CallFormatJSON
  \/ Discard

Spec == Init /\ [][Next]_vars

(* ------------- computePartialFormatting, one iteration a step ------------ *)

\* the locals of a computePartialFormatting under way: the loop index i, the
\* bound n and the automaton state st (out, level, inString, escape)
Frame(i, n, st) == [completion |-> "running", value |-> [i |-> i, n |-> n, st |-> st]]

InitLoop ==
  /\ source \in Sources
  /\ \E endIndex \in -1..(Len(source) + 1), indentStr \in IndentUnits :
       /\ call = [op |-> "computePartialFormatting", endIndex |-> endIndex,
                  indentStr |-> indentStr]
       /\ result = Frame(0, Max(0, Min(Len(source), endIndex)), FormatterStart)

\* the loop is under way
Running == result.completion = "running"

\* the character src[i] of the current iteration
LoopChar == source[result.value.i + 1]

\* the loop condition holds and the iteration takes the given branch
LoopTakes(branch) ==
  /\ Running
  /\ result.value.i < result.value.n
  /\ Branch(result.value.st, LoopChar) = branch

\* the iteration ends in automaton state st and i++ follows
LoopTo(st) ==
  /\ result' = Frame(result.value.i + 1, result.value.n, st)
  /\ UNCHANGED <<source, call>>

LoopInString ==
  LoopTakes("inString") /\ LoopTo(StepInString(result.value.st, LoopChar))

LoopQuote ==
  LoopTakes("quote") /\ LoopTo(StepQuote(result.value.st, LoopChar))

LoopOpen ==
  LoopTakes("open") /\ LoopTo(StepOpen(result.value.st, LoopChar, call.indentStr))

LoopClose ==
  LoopTakes("close") /\ LoopTo(StepClose(result.value.st, LoopChar, call.indentStr))

LoopComma ==
  LoopTakes("comma") /\ LoopTo(StepComma(result.value.st, LoopChar, call.indentStr))

LoopColon ==
  LoopTakes("colon") /\ LoopTo(StepColon(result.value.st))

LoopWhitespace ==
  LoopTakes("whitespace") /\ LoopTo(StepWhitespace(result.value.st))

LoopOther ==
  LoopTakes("other") /\ LoopTo(StepOther(result.value.st, LoopChar))

\* the loop condition fails: line 122 returns
LoopExit ==
  /\ Running
  /\ result.value.i >= result.value.n
  /\ result' = Return([formatted |-> result.value.st.out,
                       formattedErrorOffset |-> Len(result.value.st.out)])
  /\ UNCHANGED <<source, call>>

NextLoop ==
  \/ LoopInString
  \/ LoopQuote
  \/ LoopOpen
  \/ LoopClose
  \/ LoopComma
  \/ LoopColon
  \/ LoopWhitespace
  \/ LoopOther
  \/ LoopExit

SpecLoop == InitLoop /\ [][NextLoop]_vars

(* -------- the replay loop of validateIncremental, one iteration a step ------- *)

\* the locals of a validateIncremental in its catch block: the caught message,
\* errorInfo, the loop index i, errorIndex as the bound n and the tokenizer
\* state st (level, inString, escape)
ReplayFrame(message, errorInfo, i, n, st) ==
  [completion |-> "replaying",
   value |-> [error |-> message, errorInfo |-> errorInfo, i |-> i, n |-> n, st |-> st]]

\* the catch block up to the loop: errorInfo and errorIndex from the message
EnterReplay(message, jsonString) ==
  LET errorInfo == parseJSONError(message, jsonString)
  IN ReplayFrame(message, errorInfo, 0, ErrorIndex(errorInfo, jsonString), ReplayStart)

\* validateIncremental is called on a source JSON.parse rejects and reaches
\* its replay loop
StartReplay ==
  /\ Idle
  /\ LET parsed == JSONparse(source)
     IN /\ ~parsed.ok
        /\ \E engine \in Engines, options \in Indentations :
             /\ IndentStr(options).completion = "return"
             /\ call' = [op |-> "validateIncremental", options |-> options,
                         engine |-> engine]
             /\ result' = EnterReplay(EngineMessage(engine, source, parsed.at), source)
  /\ UNCHANGED source

\* the replay loop is under way
Replaying == result.completion = "replaying"

ReplayIterate ==
  /\ Replaying
  /\ result.value.i < result.value.n
  /\ result' = [result EXCEPT !.value.i = result.value.i + 1,
                              !.value.st = ReplayStep(result.value.st,
                                                      source[result.value.i + 1])]
  /\ UNCHANGED <<source, call>>

\* lines 172-196: the result built from the locals once the loop is left
ReplayResult(jsonString, indentStr, locals) ==
  LET partial == computePartialFormatting(jsonString, locals.n, indentStr)
      suffix == Slice(jsonString, locals.n)
  IN [isValid |-> FALSE,
      error |-> locals.error,
      errorInfo |-> locals.errorInfo,
      errorIndex |-> locals.n,
      formattedPrefix |-> partial.formatted,
      suffix |-> suffix,
      formattedErrorOffset |-> partial.formattedErrorOffset,
      formattedContent |-> partial.formatted \o suffix,
      tokenContext |-> locals.st,
      expected |-> Expected(locals.st)]

\* the loop condition fails: the result is built and returned
ReplayExit ==
  /\ Replaying
  /\ result.value.i >= result.value.n
  /\ result' = Return(ReplayResult(source, IndentStr(call.options).value, result.value))
  /\ UNCHANGED <<source, call>>

\* computePartialFormatting is called and reaches its loop
StartFormatting ==
  /\ Idle
  /\ \E endIndex \in -1..(Len(source) + 1), indentStr \in IndentUnits :
       /\ call' = [op |-> "computePartialFormatting", endIndex |-> endIndex,
                   indentStr |-> indentStr]
       /\ result' = Frame(0, Max(0, Min(Len(source), endIndex)), FormatterStart)
  /\ UNCHANGED source

NextLoops ==
  \/ StartFormatting
  \/ StartReplay
  \/ LoopInString
  \/ LoopQuote
  \/ LoopOpen
  \/ LoopClose
  \/ LoopComma
  \/ LoopColon
  \/ LoopWhitespace
  \/ LoopOther
  \/ LoopExit
  \/ ReplayIterate
  \/ ReplayExit

\* both loops, entered from the idle module
SpecLoops == Init /\ [][NextLoops]_vars

\* a loop whose next step is possible takes it: nothing else runs meanwhile
SpecLoopsFair == SpecLoops /\ WF_vars(NextLoop) /\ WF_vars(ReplayIterate)

(* ------------------------------ claims -------------------------------- *)

\* the last call was formatUntilError or validateIncremental
IsFormatCall == call.op \in {"formatUntilError", "validateIncremental"}

\* ... and it returned an invalid result
IsInvalidResult ==
  IsFormatCall /\ result.completion = "return" /\ ~result.value.isValid

Clamp(x, lo, hi) == IF x < lo THEN lo ELSE IF x > hi THEN hi ELSE x

\* C1: formatUntilError and validateIncremental return a result tagged with
\* isValid and never throw, for every source and every options.indentation
\* (absent, 'tab', any integer including zero and negative ones).
C1_NeverThrows ==
  IsFormatCall => result.completion = "return" /\ result.value.isValid \in BOOLEAN

\* C2: the position of the ErrorInfo returned by parseJSONError lies in
\* [0, length(source)], whichever message shape was recognised.
C2_PositionInRange ==
  call.op = "parseJSONError" =>
    result.value.position >= 0 /\ result.value.position <= Len(source)

\* C3: the ErrorInfo returned by parseJSONError has line >= 1 and column >= 1,
\* also when the message says line 0 or column 0.
C3_LineColumnAtLeastOne ==
  call.op = "parseJSONError" => result.value.line >= 1 /\ result.value.column >= 1

\* C4: in every invalid result errorIndex is errorInfo.position clamped to
\* [0, length(source)], suffix is source[errorIndex:] unmodified and
\* formattedContent is formattedPrefix followed by suffix.
C4_ErrorIndexSuffixContent ==
  IsInvalidResult =>
    LET r == result.value
    IN /\ r.errorIndex = Clamp(r.errorInfo.position, 0, Len(source))
       /\ r.suffix = [i \in 1..(Len(source) - r.errorIndex) |-> source[r.errorIndex + i]]
       /\ r.formattedContent = r.formattedPrefix \o r.suffix

\* C4 witness: an invalid result whose error lies inside the text, with a prefix
\* that formatting changed and a suffix that is not empty
C4_Witness ==
  /\ IsInvalidResult
  /\ result.value.errorIndex > 0
  /\ result.value.suffix # <<>>
  /\ result.value.formattedPrefix # SubSeq(source, 1, result.value.errorIndex)

\* C5: the formattedErrorOffset returned by computePartialFormatting, and copied
\* into every invalid result, is the length of the formatted prefix: an offset
\* into the reformatted text, not into the original source.
C5_OffsetIsPrefixLength ==
  /\ call.op = "computePartialFormatting" =>
       result.value.formattedErrorOffset = Len(result.value.formatted)
  /\ IsInvalidResult =>
       result.value.formattedErrorOffset = Len(result.value.formattedPrefix)

\* C5 witness: an invalid result whose offset in the reformatted text differs
\* from the offset of the error in the source
C5_Witness ==
  /\ IsInvalidResult
  /\ result.value.formattedErrorOffset # result.value.errorIndex
  /\ result.value.formattedErrorOffset = Len(result.value.formattedPrefix)

\* the options.indentation values for which ' '.repeat does not throw (see C1)
IndentationAccepted(options) == options.kind # "int" \/ options.n >= 0

MessageLine(m) == IF Len(m) = 4 THEN m[2].n ELSE m[3].n

MessageColumn(m) == IF Len(m) = 4 THEN m[4].n ELSE m[6].n

\* P of a message of PositionMessages
MessagePosition(m) == IF Len(m) = 2 THEN m[2].n ELSE IF Len(m) = 5 THEN m[5].n ELSE m[3].n

\* the sum of (length + 1) over the first k lines of s, all of them when s has
\* fewer: the offset just past the k-th newline, or length(s) + 1
FirstLinesSpan(s, k) ==
  LET nls == {i \in 1..Len(s) : s[i] = NL}
  IN IF k <= 0 THEN 0
     ELSE IF k > Cardinality(nls) THEN Len(s) + 1
     ELSE CHOOSE i \in nls : Cardinality({j \in nls : j <= i}) = k

\* C7 as stated: with a 'line L column C' message parseJSONError returns
\* line = L, column = C and position = the sum of (length + 1) over the first
\* L-1 lines plus C-1, for every source including the empty source.
C7_PositionFromLineColumn ==
  (call.op = "parseJSONError" /\ call.message \in LineColumnMessages) =>
    LET L == MessageLine(call.message)
        C == MessageColumn(call.message)
    IN /\ result.value.line = L
       /\ result.value.column = C
       /\ result.value.position = FirstLinesSpan(source, L - 1) + C - 1

\* C7 amended: line = L and column = C unchanged; for a non-empty source
\* position = the sum of (length + 1) over the first L-1 lines (all of them
\* when the source has fewer) plus max(0, C-1); for the empty source
\* position = 0.
C7_PositionFromLineColumnAmended ==
  (call.op = "parseJSONError" /\ call.message \in LineColumnMessages) =>
    LET L == MessageLine(call.message)
        C == MessageColumn(call.message)
    IN /\ result.value.line = L
       /\ result.value.column = C
       /\ source # <<>> =>
            result.value.position =
              FirstLinesSpan(source, L - 1) + (IF C >= 1 THEN C - 1 ELSE 0)
       /\ source = <<>> => result.value.position = 0

\* C7 witness: an upper-case message with a comma, pointing into the second
\* line of a source of several lines
C7_Witness ==
  /\ call.op = "parseJSONError"
  /\ call.message \in LineColumnMessages
  /\ Len(call.message) = 8
  /\ MessageLine(call.message) = 2
  /\ MessageColumn(call.message) = 2
  /\ \E i \in 1..Len(source) : source[i] = NL
  /\ source[1] # NL
  /\ result.value.position > 2

\* C8: with a 'position P' message and no line/column pattern parseJSONError
\* returns position = clamp(P, 0, length(source)), line = 1 + the number of
\* newlines in source[0:position], and column = position minus the offset of
\* the last newline before position (position + 1 when there is none).
C8_PositionMessage ==
  (call.op = "parseJSONError" /\ call.message \in PositionMessages
     /\ Len(call.message) \in {2, 5}) =>
    LET P == MessagePosition(call.message)
        position == Clamp(P, 0, Len(source))
        nls == {i \in 0..(position - 1) : source[i + 1] = NL}
        last == CHOOSE i \in nls : \A j \in nls : j <= i
    IN /\ result.value.position = position
       /\ result.value.line = 1 + Cardinality(nls)
       /\ result.value.column = IF nls = {} THEN position + 1 ELSE position - last

\* C9: with boundary 0 (or any boundary <= 0) the formatted prefix is empty, the
\* formattedErrorOffset is 0 and the suffix is the whole source.
C9_EmptyPrefixAtBoundaryZero ==
  /\ (call.op = "computePartialFormatting" /\ call.endIndex <= 0) =>
       /\ result.value.formatted = <<>>
       /\ result.value.formattedErrorOffset = 0
  /\ (IsInvalidResult /\ result.value.errorIndex = 0) =>
       /\ result.value.formattedPrefix = <<>>
       /\ result.value.formattedErrorOffset = 0
       /\ result.value.suffix = source
       /\ result.value.formattedContent = source

\* C9 witness: an invalid result with the error at offset 0 of a text that the
\* formatter would change
C9_Witness ==
  /\ IsInvalidResult
  /\ result.value.errorIndex = 0
  /\ source # <<>>
  /\ source[1] \in {"{", "[", SPACE, ","}

\* C10: for a valid JSON source s, computePartialFormatting(s, length(s),
\* indent).formatted is the output of the reference pretty-printer for s with
\* that indent, also for empty objects and arrays, white space before ':' or
\* ',' and trailing white space.
C10_FullLengthMatchesPrettyPrinter ==
  (call.op = "computePartialFormatting" /\ call.endIndex = Len(source)
     /\ JSONparse(source).ok) =>
    result.value.formatted = JSONstringify(JSONparse(source).val, call.indentStr)

\* the last call was validateIncremental and it returned an invalid result
IsInvalidValidation == IsInvalidResult /\ call.op = "validateIncremental"

\* C11: whenever the reference parser rejects the source, validateIncremental
\* returns the same error, errorInfo, errorIndex, formattedPrefix, suffix,
\* formattedErrorOffset and formattedContent as formatUntilError does for the
\* same arguments; it only adds tokenContext and expected.
C11_ValidateAgreesWithFormat ==
  IsInvalidValidation =>
    LET v == result.value
        f == formatUntilError(source, call.options, call.engine)
    IN /\ f.completion = "return"
       /\ ~f.value.isValid
       /\ \A field \in DOMAIN f.value : v[field] = f.value[field]
       /\ DOMAIN v = DOMAIN f.value \cup {"tokenContext", "expected"}

\* C11 witness: an invalid result of validateIncremental with a tab indent and a
\* formatted prefix that is not empty
C11_Witness ==
  /\ IsInvalidValidation
  /\ call.options = TabOpt
  /\ result.value.formattedPrefix # <<>>
  /\ result.value.suffix # <<>>

\* C12 as stated: whenever the replayed automaton state at errorIndex has
\* inString = true, validateIncremental returns
\* expected = "terminating quote for string".
C12_TerminatingQuoteAsStated ==
  (IsInvalidValidation /\ result.value.tokenContext.inString) =>
    result.value.expected = "terminating quote for string"

\* C12 amended: whenever the replayed automaton state at errorIndex has
\* inString = true (as for Scenario C with the error reported at the end of the
\* text), validateIncremental returns
\* expected = 'terminating quote " for string', with the quote character in it.
C12_TerminatingQuote ==
  /\ (IsInvalidValidation /\ result.value.tokenContext.inString) =>
       result.value.expected = "terminating quote \" for string"
  /\ (IsInvalidValidation /\ source = ScenarioC
        /\ result.value.errorIndex = Len(source)) =>
       result.value.tokenContext.inString

\* C12 witness: Scenario C with the error reported at the end of the text, inside
\* a string that lies inside an object
C12_Witness ==
  /\ IsInvalidValidation
  /\ source = ScenarioC
  /\ result.value.errorIndex = Len(source)
  /\ result.value.tokenContext.inString
  /\ result.value.tokenContext.level > 0

\* C13: whenever the replayed automaton state at errorIndex has
\* inString = false, validateIncremental returns expected = "closing
\* brace/bracket or next value" if depth > 0 and "value or end of input" if
\* depth = 0; for Scenario B the result is invalid with errorInfo.position equal
\* to the length of the source and the first of the two diagnostics.
C13_ExpectedOutsideString ==
  /\ (IsInvalidValidation /\ ~result.value.tokenContext.inString) =>
       result.value.expected =
         IF result.value.tokenContext.level > 0
         THEN "closing brace/bracket or next value"
         ELSE "value or end of input"
  /\ (call.op = "validateIncremental" /\ source = ScenarioB
        /\ result.completion = "return") =>
       /\ ~result.value.isValid
       /\ result.value.errorInfo.position = Len(source)
       /\ result.value.expected = "closing brace/bracket or next value"

\* the last call was formatUntilError and it returned a valid result
IsValidFormat ==
  call.op = "formatUntilError" /\ result.completion = "return" /\ result.value.isValid

\* the indent unit that options.indentation configures: two spaces by default
\* and for 0, a tab for 'tab', n spaces for n >= 1
ConfiguredIndent(options) ==
  IF options.kind = "tab" THEN <<TAB>>
  ELSE IF options.kind = "int" /\ options.n >= 1 THEN [i \in 1..options.n |-> SPACE]
  ELSE <<SPACE, SPACE>>

\* deep equality of two parsed values; the members of an object are compared
\* by key, whatever their order
RECURSIVE DeepEqual(_, _)
DeepEqual(a, b) ==
  /\ a.t = b.t
  /\ CASE a.t = "arr" ->
            /\ Len(a.v) = Len(b.v)
            /\ \A i \in 1..Len(a.v) : DeepEqual(a.v[i], b.v[i])
       [] a.t = "obj" ->
            /\ {a.v[x].k : x \in 1..Len(a.v)} = {b.v[y].k : y \in 1..Len(b.v)}
            /\ Len(a.v) = Len(b.v)
            /\ \A x \in 1..Len(a.v), y \in 1..Len(b.v) :
                 a.v[x].k = b.v[y].k => DeepEqual(a.v[x].v, b.v[y].v)
       [] OTHER -> a.v = b.v

C15_FormatIdempotent ==
  IsValidFormat =>
    LET second == formatUntilError(result.value.formattedFull, call.options, call.engine)
    IN /\ second.completion = "return"
       /\ second.value.isValid
       /\ second.value.formattedFull = result.value.formattedFull

\* C15 witness: a valid result, indented with a tab, that differs from its source
C15_Witness ==
  /\ IsValidFormat
  /\ call.options = TabOpt
  /\ result.value.formattedFull # source
  /\ \E i \in 1..Len(result.value.formattedFull) : result.value.formattedFull[i] = TAB

\* validateJSON or formatJSON showed the partial output of an invalid input
IsPartialView ==
  /\ call.op \in {"validateJSON", "formatJSON"}
  /\ result.completion = "return"
  /\ result.value.view = "partial"

\* the result the caller obtained from the validator
CallerResult ==
  IF call.op = "validateJSON"
  THEN validateIncremental(source, IntOpt(2), call.engine).value
  ELSE formatUntilError(source, IntOpt(2), call.engine).value

\* 1-based index of the last newline of s, 0 when it has none
LastNewline(s) ==
  LET nls == {i \in 1..Len(s) : s[i] = NL}
  IN IF nls = {} THEN 0 ELSE CHOOSE i \in nls : \A j \in nls : j <= i

\* C17: in validateJSON and formatJSON the line shown for an invalid input is
\* 1 + the number of newlines of formattedPrefix and the column is the length
\* of its last line + 1, and that pair designates formattedErrorOffset inside
\* formattedContent, which is the text shown.
C17_DisplayFromPrefix ==
  IsPartialView =>
    LET shown == result.value.currentError
        r == CallerResult
        prefix == r.formattedPrefix
    IN /\ shown.line = 1 + Cardinality({i \in 1..Len(prefix) : prefix[i] = NL})
       /\ shown.column = Len(prefix) - LastNewline(prefix) + 1
       /\ result.value.output = r.formattedContent
       /\ shown.absoluteOffset = r.formattedErrorOffset
       /\ FirstLinesSpan(r.formattedContent, shown.line - 1) + shown.column - 1
            = r.formattedErrorOffset

\* C17 witness: a partial view whose error lies on a later line of the formatted
\* prefix than the line errorInfo gives for the source
C17_Witness ==
  /\ IsPartialView
  /\ result.value.currentError.line >= 2
  /\ result.value.currentError.line # CallerResult.errorInfo.line
  /\ CallerResult.suffix # <<>>

\* the number of backslashes that end out
RECURSIVE TrailingBackslashes(_)
TrailingBackslashes(out) ==
  IF out # <<>> /\ out[Len(out)] = BACKSLASH
  THEN 1 + TrailingBackslashes(SubSeq(out, 1, Len(out) - 1))
  ELSE 0

\* out ends with a backslash that no backslash escapes and that nothing follows
UnterminatedEscape(out) == TrailingBackslashes(out) % 2 = 1

\* the loop stands at the boundary: the first n characters are consumed
AtBoundary == Running /\ result.value.i = result.value.n

\* C18 as stated: the formatted prefix ends with an un-terminated escape only
\* if the automaton state at the boundary has inString and escape set.
C18_UnterminatedEscapeAsStated ==
  (AtBoundary /\ UnterminatedEscape(result.value.st.out)) =>
    result.value.st.inString /\ result.value.st.escape

\* C18 amended: the formatted prefix ends with an un-terminated escape only if
\* the last character before the boundary is a backslash and the automaton
\* state there has inString and escape both set, or inString clear (a backslash
\* outside any string, copied unchanged).
C18_UnterminatedEscape ==
  (AtBoundary /\ UnterminatedEscape(result.value.st.out)) =>
    /\ result.value.n > 0
    /\ source[result.value.n] = BACKSLASH
    /\ result.value.st.inString => result.value.st.escape

\* C18 witness: a boundary inside a string, right after an escaping backslash
C18_Witness ==
  /\ AtBoundary
  /\ UnterminatedEscape(result.value.st.out)
  /\ result.value.st.inString
  /\ result.value.st.escape
  /\ result.value.n < Len(source)

\* an iteration of the loop was taken
LoopIterates ==
  /\ Running
  /\ result'.completion = "running"
  /\ result'.value.i = result.value.i + 1

\* C19: inside a string every character is emitted unchanged and the level is
\* kept; a backslash seen with escape clear sets escape, the character after it
\* clears escape and nothing else, and only a double quote seen with escape
\* clear ends the string.
C19_InStringStep ==
  [][(LoopIterates /\ result.value.st.inString) =>
       LET st == result.value.st
           after == result'.value.st
           ch == LoopChar
       IN /\ after.out = st.out \o <<ch>>
          /\ after.level = st.level
          /\ after.escape = (~st.escape /\ ch = BACKSLASH)
          /\ after.inString = ~(~st.escape /\ ch = QUOTE)]_vars

\* C19 witness: a quote was consumed right after an escaping backslash and the
\* string is still open
C19_Witness ==
  /\ Running
  /\ result.value.i >= 3
  /\ source[result.value.i] = QUOTE
  /\ source[result.value.i - 1] = BACKSLASH
  /\ FormatterRun(source, result.value.i - 1, call.indentStr).escape
  /\ result.value.st.inString
  /\ ~result.value.st.escape

\* k copies of the indent unit
Copies(unit, k) ==
  [j \in 1..(k * Len(unit)) |-> unit[((j - 1) % Len(unit)) + 1]]

\* C20: outside a string, '{' or '[' at depth d emits the character, a newline
\* and d+1 copies of the indent unit, and the depth becomes d+1.
C20_OpenBracketStep ==
  [][(LoopIterates /\ ~result.value.st.inString /\ LoopChar \in {"{", "["}) =>
       LET st == result.value.st
           after == result'.value.st
       IN /\ after.out = st.out \o <<LoopChar, NL>>
                           \o Copies(call.indentStr, st.level + 1)
          /\ after.level = st.level + 1
          /\ ~after.inString
          /\ after.escape = st.escape]_vars

\* C20 witness: a second opening bracket was consumed at depth 1, with an
\* indent unit of two characters
C20_Witness ==
  /\ Running
  /\ result.value.i >= 2
  /\ source[result.value.i] \in {"{", "["}
  /\ ~FormatterRun(source, result.value.i - 1, call.indentStr).inString
  /\ FormatterRun(source, result.value.i - 1, call.indentStr).level = 1
  /\ result.value.st.level = 2
  /\ Len(call.indentStr) = 2

\* out without the run of spaces and tabs that ends it
WithoutTrailingBlanks(out) ==
  LET keep == {j \in 0..Len(out) : j = 0 \/ out[j] \notin {SPACE, TAB}}
  IN SubSeq(out, 1, CHOOSE j \in keep : \A k \in keep : k <= j)

\* the automaton state before the last iteration taken
BeforeLast == FormatterRun(source, result.value.i - 1, call.indentStr)

\* C21: outside a string, '}' or ']' at depth d sets the depth to max(0, d-1),
\* removes the trailing run of spaces and tabs of the output, then emits a
\* newline, max(0, d-1) copies of the indent unit and the character; at depth 0
\* the depth stays 0.
C21_CloseBracketStep ==
  [][(LoopIterates /\ ~result.value.st.inString /\ LoopChar \in {"}", "]"}) =>
       LET st == result.value.st
           after == result'.value.st
           depth == IF st.level >= 1 THEN st.level - 1 ELSE 0
       IN /\ after.level = depth
          /\ after.out = WithoutTrailingBlanks(st.out) \o <<NL>>
                           \o Copies(call.indentStr, depth) \o <<LoopChar>>
          /\ st.level = 0 => after.level = 0
          /\ ~after.inString
          /\ after.escape = st.escape]_vars

\* C21 witness: an unmatched closing bracket was consumed at depth 0 after
\* output that ended with a blank
C21_Witness ==
  /\ Running
  /\ result.value.i >= 2
  /\ source[result.value.i] \in {"}", "]"}
  /\ ~BeforeLast.inString
  /\ BeforeLast.level = 0
  /\ BeforeLast.out # <<>>
  /\ BeforeLast.out[Len(BeforeLast.out)] = SPACE
  /\ result.value.st.level = 0

\* the prefix the claim gives for {"a":1,} cut at its closing brace
ScenarioDPrefix(indentStr) ==
  <<"{", NL>> \o indentStr \o <<QUOTE, "a", QUOTE, ":", SPACE, "1", ",", NL>> \o indentStr

\* C22: outside a string, ',' at depth d is emitted followed by a newline and
\* d copies of the indent unit, and ':' is emitted as ':' and one space with no
\* newline; for {"a":1,} cut at the closing brace the formatted prefix is '{',
\* newline, indent, '"a": 1,', newline, indent.
C22_CommaColonStep ==
  /\ [][(LoopIterates /\ ~result.value.st.inString /\ LoopChar = ",") =>
          LET st == result.value.st
              after == result'.value.st
          IN /\ after.out = st.out \o <<",", NL>> \o Copies(call.indentStr, st.level)
             /\ after.level = st.level
             /\ ~after.inString]_vars
  /\ [][(LoopIterates /\ ~result.value.st.inString /\ LoopChar = ":") =>
          LET st == result.value.st
              after == result'.value.st
          IN /\ after.out = st.out \o <<":", SPACE>>
             /\ after.level = st.level
             /\ ~after.inString]_vars
  /\ []((source = ScenarioD /\ call.endIndex = Len(ScenarioD) - 1
           /\ result.completion = "return") =>
          result.value.formatted = ScenarioDPrefix(call.indentStr))

\* C22 witness: {"a":1,} was formatted up to its closing brace, two spaces a level
C22_Witness ==
  /\ source = ScenarioD
  /\ call.endIndex = Len(ScenarioD) - 1
  /\ call.indentStr = <<SPACE, SPACE>>
  /\ result.completion = "return"
  /\ Len(result.value.formatted) > Len(ScenarioD)
  /\ result.value.formatted[Len(result.value.formatted)] = SPACE

\* C23: outside a string, a whitespace character makes the formatter emit one
\* space if and only if the output is not empty and does not end with
\* whitespace; otherwise it emits nothing.
C23_WhitespaceStep ==
  [][(LoopIterates /\ ~result.value.st.inString /\ IsSpace(LoopChar)) =>
       LET st == result.value.st
           after == result'.value.st
           emits == st.out # <<>> /\ st.out[Len(st.out)] \notin {SPACE, NL, TAB}
       IN /\ after.out = IF emits THEN st.out \o <<SPACE>> ELSE st.out
          /\ after.level = st.level
          /\ ~after.inString]_vars

\* C23 witness: the second whitespace character of a run was consumed after a
\* value and only one space was emitted for the run
C23_Witness ==
  /\ Running
  /\ result.value.i >= 3
  /\ IsSpace(source[result.value.i])
  /\ IsSpace(source[result.value.i - 1])
  /\ ~BeforeLast.inString
  /\ result.value.st.out = <<source[1], SPACE>>

\* a loop of either function is under way
InLoop == Running \/ Replaying

\* the boundary the loop was given: endIndex for computePartialFormatting, the
\* reported position for the replay loop
Boundary ==
  IF call.op = "computePartialFormatting" THEN call.endIndex
  ELSE result.value.errorInfo.position

\* C24: for every source and boundary, computePartialFormatting and the replay
\* loop of validateIncremental terminate, they leave the loop after exactly
\* clamp(boundary, 0, length(source)) characters, and every index they read
\* lies in [0, length(source) - 1].
C24_LoopsTerminateInBounds ==
  /\ <>[](~(InLoop /\ result.value.i < result.value.n))
  /\ []((InLoop /\ result.value.i < result.value.n) =>
          result.value.i \in 0..(Len(source) - 1))
  /\ [][(InLoop /\ result'.completion = "return") =>
          result.value.i = Clamp(Boundary, 0, Len(source))]_vars

\* C24 witness: a call returned whose boundary lay beyond the end of a source
\* that is not empty
C24_Witness ==
  /\ result.completion = "return"
  /\ source # <<>>
  /\ Boundary > Len(source)

\* level, inString and escape of an automaton state
Tokenizer(st) == [level |-> st.level, inString |-> st.inString, escape |-> st.escape]

\* C25: at every boundary the (level, inString, escape) of the replay loop of
\* validateIncremental equals that of computePartialFormatting on the same
\* source and boundary.
C25_ReplayAgreesWithFormatter ==
  /\ Running => Tokenizer(result.value.st) = ReplayRun(source, result.value.i)
  /\ Replaying =>
       \A indentStr \in IndentUnits :
         result.value.st = Tokenizer(FormatterRun(source, result.value.i, indentStr))
  /\ (call.op = "validateIncremental" /\ result.completion = "return") =>
       result.value.tokenContext =
         Tokenizer(FormatterRun(source, result.value.errorIndex,
                                IndentStr(call.options).value))

\* C25 witness: validateIncremental returned for an error inside a string that
\* lies inside a bracket
C25_Witness ==
  /\ call.op = "validateIncremental"
  /\ result.completion = "return"
  /\ result.value.errorIndex >= 2
  /\ result.value.tokenContext.inString
  /\ result.value.tokenContext.level >= 1

\* C26: after every character processed by either automaton the depth is >= 0
\* and escape set implies inString set.
C26_AutomatonInvariant ==
  InLoop =>
    /\ result.value.st.level >= 0
    /\ result.value.st.escape => result.value.st.inString

\* C26 witness: the formatter consumed a closing bracket at depth 0, right
\* after a string was closed
C26_Witness ==
  /\ Running
  /\ result.value.i >= 3
  /\ source[result.value.i] \in {"}", "]"}
  /\ source[result.value.i - 1] = QUOTE
  /\ ~BeforeLast.inString
  /\ BeforeLast.level = 0
  /\ result.value.st.level = 0

\* s from its character i on without the whitespace that lies outside a string,
\* for a scan that stands inside a string or not, after an escaping backslash
\* or not
RECURSIVE SignificantFrom(_, _, _, _)
SignificantFrom(s, i, inString, escape) ==
  IF i > Len(s) THEN <<>>
  ELSE IF inString
  THEN <<s[i]>> \o SignificantFrom(s, i + 1, ~(~escape /\ s[i] = QUOTE),
                                   ~escape /\ s[i] = BACKSLASH)
  ELSE IF IsSpace(s[i]) THEN SignificantFrom(s, i + 1, FALSE, FALSE)
  ELSE <<s[i]>> \o SignificantFrom(s, i + 1, s[i] = QUOTE, FALSE)

Significant(s) == SignificantFrom(s, 1, FALSE, FALSE)

\* computePartialFormatting returned in the stepped loop
LoopReturned == call.op = "computePartialFormatting" /\ result.completion = "return"

\* source[0:boundary]
SourcePrefix == SubSeq(source, 1, Clamp(call.endIndex, 0, Len(source)))

\* C27: deleting the whitespace outside strings from the formatted prefix gives
\* the same characters as deleting it from source[0:boundary].
C27_OnlyWhitespaceChanges ==
  LoopReturned => Significant(result.value.formatted) = Significant(SourcePrefix)

\* C27 witness: a prefix with whitespace outside a string was formatted into
\* something else, with a newline in it
C27_Witness ==
  /\ LoopReturned
  /\ Len(Significant(SourcePrefix)) < Len(SourcePrefix)
  /\ Significant(SourcePrefix) # <<>>
  /\ result.value.formatted # SourcePrefix
  /\ \E j \in 1..Len(result.value.formatted) : result.value.formatted[j] = NL

\* computePartialFormatting returned for a boundary at or beyond the end
FullLengthReturned == LoopReturned /\ call.endIndex >= Len(source)

\* C28: formatting the full-length formatted output of any source again, over
\* its whole length and with the same indent unit, returns it unchanged.
C28_FullLengthIdempotent ==
  FullLengthReturned =>
    LET out == result.value.formatted
        again == computePartialFormatting(out, Len(out), call.indentStr)
    IN /\ again.formatted = out
       /\ again.formattedErrorOffset = result.value.formattedErrorOffset

\* C28 witness: a source the parser rejects was formatted over its whole length
\* into a different, longer text
C28_Witness ==
  /\ FullLengthReturned
  /\ ~JSONparse(source).ok
  /\ Len(result.value.formatted) > Len(source)
  /\ \E j \in 1..Len(source) : IsSpace(source[j])

\* the last call was parseJSONError on a message of the 'position P' shape alone,
\* with P inside a source that is not empty
IsPositionCall ==
  /\ call.op = "parseJSONError"
  /\ call.message \in PositionMessages
  /\ Len(call.message) \in {2, 5}
  /\ source # <<>>
  /\ MessagePosition(call.message) <= Len(source)

\* the 'line L column C' message for the line and column of an errorInfo
LineColumnMessageOf(errorInfo) ==
  <<W("line"), N(errorInfo.line), W("column"), N(errorInfo.column)>>

\* C29: for a source that is not empty and 0 <= P <= length, if a 'position P'
\* message yields line L and column C, then a 'line L column C' message on the
\* same source yields position P.
C29_ShapesAgree ==
  IsPositionCall =>
    /\ result.value.position = MessagePosition(call.message)
    /\ parseJSONError(LineColumnMessageOf(result.value), source).position
         = MessagePosition(call.message)

\* C29 witness: a position past the first newline of the source, reported on a
\* later line
C29_Witness ==
  /\ IsPositionCall
  /\ MessagePosition(call.message) >= 2
  /\ result.value.line >= 2
  /\ result.value.column >= 2

\* a is a prefix of b
IsPrefix(a, b) == Len(a) <= Len(b) /\ SubSeq(b, 1, Len(a)) = a

\* character j of the source (1-based) is a closing bracket that the formatter
\* processes outside a string
ClosesOutside(j) ==
  /\ source[j] \in {"}", "]"}
  /\ ~FormatterRun(source, j - 1, call.indentStr).inString

\* C30: for boundaries k <= k' with no closing bracket processed outside a string
\* between them, the formatted prefix for k is a prefix of the one for k' and
\* formattedErrorOffset does not decrease.
C30_AppendOnlyExceptClose ==
  Running =>
    \A k \in 0..result.value.i :
      (\A j \in (k + 1)..result.value.i : ~ClosesOutside(j)) =>
        LET earlier == computePartialFormatting(source, k, call.indentStr)
            later == computePartialFormatting(source, result.value.i, call.indentStr)
        IN /\ later.formatted = result.value.st.out
           /\ IsPrefix(earlier.formatted, later.formatted)
           /\ earlier.formattedErrorOffset <= later.formattedErrorOffset

\* C30 witness: three characters without a closing bracket were consumed and
\* the output grew at each of them
C30_Witness ==
  /\ Running
  /\ result.value.i = 3
  /\ \A j \in 1..3 : ~ClosesOutside(j)
  /\ \A j \in 1..3 : Len(FormatterRun(source, j - 1, call.indentStr).out)
                       < Len(FormatterRun(source, j, call.indentStr).out)
  /\ Len(result.value.st.out) > 3

====
